---- MODULE Spec2Model ----
(***************************************************************************)
(* Model of the support-email agent: the LangGraph pipeline of             *)
(* src/src/agent/graph.py and src/src/agent/nodes.py, the conversation     *)
(* store of src/src/knowledge_base/conversation_history.py, the IMAP/SMTP  *)
(* mailbox of src/src/email_providers/smtp_provider.py and the two batch   *)
(* drivers (src/src/api/app.py batch_process, src/src/main.py run_once).   *)
(*                                                                         *)
(* Texts are symbolic records (a draft, a holding reply, a notification),  *)
(* complexity scores are integers in tenths (0.7 is 7).                    *)
(***************************************************************************)
EXTENDS Integers, Sequences, FiniteSets, TLC

\* ------------------------------------------------------------- bounds

MaxMsgs == 2      \* messages in the inbox
MaxPolls == 2     \* polls (receive_emails calls) of the driver
MaxRuns == 2      \* process_email calls of the driver

\* ------------------------------------------------- program constants

ComplexityThreshold == 7        \* triggers[1]['complexity_score'], 0.7
SensitiveComplexityFloor == 5   \* complexity >= 0.5
DefaultComplexity == 5          \* result.get('complexity_score', 0.5)
MissingComplexity == 0          \* classification.get('complexity_score', 0)
PollLimit == 10                 \* receive_emails(limit=10)

MsgIds == 1..MaxMsgs

CustomerAddr == "customer@x.com"
AdminAddr == "admin@corp.com"
Senders == {CustomerAddr, AdminAddr}

SensitiveVocabulary == {"legal"}

\* ------------------------------------------------------ python helpers

\* dict.get(key, default)
Get(d, k, default) == IF k \in DOMAIN d THEN d[k] ELSE default

\* str.lower() on the urgency strings the model uses
Lower(s) ==
    CASE s = "HIGH" -> "high"
      [] s = "CRITICAL" -> "critical"
      [] OTHER -> s

\* Optional[...] values: <<>> is None, <<v>> is v
NoneVal == <<>>
Some(v) == <<v>>
IsNone(o) == o = <<>>
TheVal(o) == o[1]

\* Texts are records with a kind; NoText is a None text
NoText == [kind |-> "none"]

\* The body of inbound message m
BodyOf(m) == [kind |-> "body", id |-> m]

\* ------------------------------------------------- escalation decision

\* Mutant: only critical urgency triggers the urgency rule
check_human_review_required_critical_only(result, enabled) ==
    LET urgency == Lower(Get(result, "urgency", ""))
        complexity == Get(result, "complexity_score", MissingComplexity)
        sensitive_topics == Get(result, "sensitive_topics", {})
        has_sensitive == \E topic \in sensitive_topics : topic \in SensitiveVocabulary
    IN  IF ~enabled THEN FALSE
        ELSE IF urgency \in {"critical"} THEN TRUE
        ELSE IF complexity >= ComplexityThreshold THEN TRUE
        ELSE IF has_sensitive /\ (urgency \in {"high", "critical"}
                                   \/ complexity >= SensitiveComplexityFloor) THEN TRUE
        ELSE FALSE

\* Mutant: the complexity rule needs a score above the threshold
check_human_review_required_above(result, enabled) ==
    LET urgency == Lower(Get(result, "urgency", ""))
        complexity == Get(result, "complexity_score", MissingComplexity)
        sensitive_topics == Get(result, "sensitive_topics", {})
        has_sensitive == \E topic \in sensitive_topics : topic \in SensitiveVocabulary
    IN  IF ~enabled THEN FALSE
        ELSE IF urgency \in {"high", "critical"} THEN TRUE
        ELSE IF complexity > ComplexityThreshold THEN TRUE
        ELSE IF has_sensitive /\ (urgency \in {"high", "critical"}
                                   \/ complexity >= SensitiveComplexityFloor) THEN TRUE
        ELSE FALSE

\* Mutant: a sensitive tag alone escalates
check_human_review_required_any_tag(result, enabled) ==
    LET urgency == Lower(Get(result, "urgency", ""))
        complexity == Get(result, "complexity_score", MissingComplexity)
        sensitive_topics == Get(result, "sensitive_topics", {})
        has_sensitive == \E topic \in sensitive_topics : topic \in SensitiveVocabulary
    IN  IF ~enabled THEN FALSE
        ELSE IF urgency \in {"high", "critical"} THEN TRUE
        ELSE IF complexity >= ComplexityThreshold THEN TRUE
        ELSE IF has_sensitive THEN TRUE
        ELSE FALSE

\* Mutant: the rules are applied whatever the configuration's switch says
check_human_review_required_ignores_switch(result, enabled) ==
    LET urgency == Lower(Get(result, "urgency", ""))
        complexity == Get(result, "complexity_score", MissingComplexity)
        sensitive_topics == Get(result, "sensitive_topics", {})
        has_sensitive == \E topic \in sensitive_topics : topic \in SensitiveVocabulary
    IN  IF urgency \in {"high", "critical"} THEN TRUE
        ELSE IF complexity >= ComplexityThreshold THEN TRUE
        ELSE IF has_sensitive /\ (urgency \in {"high", "critical"}
                                   \/ complexity >= SensitiveComplexityFloor) THEN TRUE
        ELSE FALSE

\* nodes.py _check_human_review_required(classification: dict) -> bool
check_human_review_required(result, enabled) ==
    LET urgency == Lower(Get(result, "urgency", ""))
        complexity == Get(result, "complexity_score", MissingComplexity)
        sensitive_topics == Get(result, "sensitive_topics", {})
        has_sensitive == \E topic \in sensitive_topics : topic \in SensitiveVocabulary
    IN  IF ~enabled THEN FALSE
        ELSE IF urgency \in {"high", "critical"} THEN TRUE
        ELSE IF complexity >= ComplexityThreshold THEN TRUE
        ELSE IF has_sensitive /\ (urgency \in {"high", "critical"}
                                   \/ complexity >= SensitiveComplexityFloor) THEN TRUE
        ELSE FALSE

\* The fallback dict of classify_email when the response holds no {...} block
FallbackResult ==
    [category |-> "general", urgency |-> "medium", complexity_score |-> DefaultComplexity,
     sensitive_topics |-> {}, reasoning |-> "Unable to parse classification"]

\* EmailClassification(...) as classify_email builds it from the parsed dict
EmailClassification(result, requires_human) ==
    [category |-> Get(result, "category", "general"),
     urgency |-> Get(result, "urgency", "medium"),
     complexity_score |-> Get(result, "complexity_score", DefaultComplexity),
     requires_human_review |-> requires_human,
     reasoning |-> Get(result, "reasoning", ""),
     sensitive_topics |-> Get(result, "sensitive_topics", {})]

\* ------------------------------------------------ collaborator outputs

\* What the completion call of the classification step can do: raise, or
\* return text with no {...} block, with a block json.loads rejects, or
\* with a JSON object (some keys possibly missing).
LLMRaise == [kind |-> "raise", result |-> <<>>]
LLMNoJson == [kind |-> "nojson", result |-> <<>>]
LLMBadJson == [kind |-> "badjson", result |-> <<>>]
LLMJson(d) == [kind |-> "json", result |-> d]

RunClassifyOutputs ==
    { LLMRaise, LLMNoJson, LLMBadJson,
      LLMJson([category |-> "billing", urgency |-> "low", complexity_score |-> 2,
               sensitive_topics |-> {}, reasoning |-> "faq"]),
      LLMJson([category |-> "billing", urgency |-> "critical", complexity_score |-> 2,
               sensitive_topics |-> {}, reasoning |-> "outage"]),
      LLMJson([category |-> "technical", urgency |-> "medium", complexity_score |-> 8,
               sensitive_topics |-> {}, reasoning |-> "hard"]) }

\* A parsed JSON object with the keys in K: every key of the prompt's schema
\* may be missing, and the values are whatever the completion wrote
ParsedResult(K, urgency, complexity, topics) ==
    [k \in K |->
        CASE k = "urgency" -> urgency
          [] k = "complexity_score" -> complexity
          [] k = "sensitive_topics" -> topics
          [] k = "category" -> "billing"
          [] OTHER -> "because"]

\* The parsed objects a single-message run is checked over: every urgency
\* spelling, complexities on both sides of both thresholds, tags in and
\* out of the sensitive vocabulary, and each decision key present or missing
WideResults ==
    { ParsedResult(K \cup {"category", "reasoning"}, urgency, complexity, topics) :
        K \in SUBSET {"urgency", "complexity_score", "sensitive_topics"},
        urgency \in {"low", "medium", "high", "critical", "HIGH", "CRITICAL", "urgent"},
        complexity \in {0, 3, 5, 6, 7, 10, 15},
        topics \in {{}, {"legal"}, {"weather"}, {"legal", "weather"}} }

WideClassifyOutputs ==
    RunClassifyOutputs \cup { LLMJson(d) : d \in WideResults }

KBOutputs == { "raise", "empty", "hits" }
GenOutputs == { "raise", "text" }
SendOutputs == { "ok", "false", "raise" }
MarkOutputs == { "ok", "fail" }

\* ---------------------------------------------------------- run state

SupportAddr == "support@corp.com"

\* AgentState as process_email builds it (graph.py initial_state)
InitialState(m, sender) ==
    [email_id |-> m, from_email |-> sender, to_email |-> <<SupportAddr>>,
     body |-> BodyOf(m),
     classification |-> NoneVal, retrieved_context |-> <<>>,
     draft_response |-> NoText, human_review_required |-> FALSE,
     human_approved |-> "None", final_response |-> NoText,
     sent |-> FALSE, error |-> "None"]

\* The run-state slot of a driver that is not inside process_email
IdleState == InitialState(0, "")

\* Mutant: the except branch marks the run for human review
classify_email_review_on_failure(st, llm, enabled) ==
    IF llm.kind \in {"raise", "badjson"}
    THEN [st EXCEPT !.error = "Classification failed",
                    !.human_review_required = TRUE]
    ELSE LET result == IF llm.kind = "json" THEN llm.result ELSE FallbackResult
             requires_human == check_human_review_required(result, enabled)
         IN  [st EXCEPT !.classification = Some(EmailClassification(result, requires_human)),
                        !.human_review_required = requires_human]

\* nodes.py classify_email
classify_email(st, llm, enabled) ==
    IF llm.kind \in {"raise", "badjson"}
    THEN \* llm.invoke or json.loads raised: except branch
         [st EXCEPT !.error = "Classification failed"]
    ELSE LET result == IF llm.kind = "json" THEN llm.result ELSE FallbackResult
             requires_human == check_human_review_required(result, enabled)
         IN  [st EXCEPT !.classification = Some(EmailClassification(result, requires_human)),
                        !.human_review_required = requires_human]

\* Mutant: a failed search is recorded in the error field
retrieve_context_records_error(st, kb) ==
    IF kb = "hits"
    THEN [st EXCEPT !.retrieved_context = <<"passage1", "passage2">>]
    ELSE IF kb = "raise"
    THEN [st EXCEPT !.retrieved_context = <<>>, !.error = "Context retrieval failed"]
    ELSE [st EXCEPT !.retrieved_context = <<>>]

\* nodes.py retrieve_context
retrieve_context(st, kb) ==
    IF kb = "hits"
    THEN [st EXCEPT !.retrieved_context = <<"passage1", "passage2">>]
    ELSE [st EXCEPT !.retrieved_context = <<>>]

\* The sign-off generate_response appends to the cleaned completion text and
\* that closes its fallback template
FridaySignature == "Best regards, FRIDAY, Support Assistant, support@thalathai.pro"

\* context = "\n\n".join(retrieved_context) if retrieved_context else "No ..."
NoContextText == "No specific context available."

\* The arguments generate_response formats into the prompt of its completion call
GenerationPrompt(st) ==
    [context |-> IF st.retrieved_context # <<>>
                 THEN [kind |-> "joined", passages |-> st.retrieved_context]
                 ELSE [kind |-> "literal", text |-> NoContextText],
     category |-> IF IsNone(st.classification) THEN "general"
                  ELSE TheVal(st.classification).category,
     urgency |-> IF IsNone(st.classification) THEN "medium"
                 ELSE TheVal(st.classification).urgency,
     body |-> st.body]

\* The draft of generate_response: cleaned completion text plus signature
GeneratedDraft(st) ==
    [kind |-> "draft", src |-> "llm", id |-> st.email_id, signature |-> FridaySignature]

\* The fallback reply of generate_response
FallbackDraft(st) ==
    [kind |-> "draft", src |-> "fallback", id |-> st.email_id,
     signature |-> FridaySignature]

\* Mutant: the except branch also marks the run for human review
generate_response_flags_fallback(st, gen) ==
    IF gen = "text"
    THEN [st EXCEPT !.draft_response = GeneratedDraft(st)]
    ELSE [st EXCEPT !.error = "Response generation failed",
                    !.draft_response = FallbackDraft(st),
                    !.human_review_required = TRUE]

\* Mutant: the except branch records the error and leaves the draft empty
generate_response_no_fallback(st, gen) ==
    IF gen = "text"
    THEN [st EXCEPT !.draft_response = GeneratedDraft(st)]
    ELSE [st EXCEPT !.error = "Response generation failed"]

\* nodes.py generate_response
generate_response(st, gen) ==
    IF gen = "text"
    THEN [st EXCEPT !.draft_response = GeneratedDraft(st)]
    ELSE [st EXCEPT !.error = "Response generation failed",
                    !.draft_response = FallbackDraft(st)]

\* Mutant: the two branches of the conditional edge swapped
route_after_generation_swapped(st) ==
    IF st.human_review_required THEN "finalize" ELSE "escalate_to_human"

\* graph.py _route_after_generation
route_after_generation(st) ==
    IF st.human_review_required THEN "escalate_to_human" ELSE "finalize"

\* Mutant: an unsent run goes back to send_email
graph_edge_retry(node, st) ==
    CASE node = "classify" -> "retrieve_context"
      [] node = "retrieve_context" -> "generate_response"
      [] node = "generate_response" -> route_after_generation(st)
      [] node = "escalate_to_human" -> "send_email"
      [] node = "finalize" -> "send_email"
      [] node = "send_email" -> IF st.sent THEN "END" ELSE "send_email"

\* Mutant: an escalated run waits for the reviewer before it is sent
graph_edge_awaits_approval(node, st) ==
    CASE node = "classify" -> "retrieve_context"
      [] node = "retrieve_context" -> "generate_response"
      [] node = "generate_response" -> route_after_generation(st)
      [] node = "escalate_to_human" -> "await_approval"
      [] node = "finalize" -> "send_email"
      [] node = "send_email" -> "END"

\* graph.py _build_graph: the node that follows node, END after send_email
graph_edge(node, st) ==
    CASE node = "classify" -> "retrieve_context"
      [] node = "retrieve_context" -> "generate_response"
      [] node = "generate_response" -> route_after_generation(st)
      [] node = "escalate_to_human" -> "send_email"
      [] node = "finalize" -> "send_email"
      [] node = "send_email" -> "END"

\* The holding reply of _escalate_to_human_node
HoldingResponse(st) ==
    LET urgency == IF IsNone(st.classification) THEN "high"
                   ELSE TheVal(st.classification).urgency
        timeframe == IF urgency = "critical" THEN "2 hours" ELSE "24 hours"
    IN  [kind |-> "holding", timeframe |-> timeframe, id |-> st.email_id]

\* Mutant: the draft, not the holding reply, becomes the final reply
escalate_to_human_node_draft(st, notify) ==
    [st EXCEPT !.final_response = st.draft_response,
               !.human_approved = "False"]

\* Mutant: a failed reviewer notification reaches the node's except branch
escalate_to_human_node_propagates(st, notify) ==
    IF notify = "ok"
    THEN [st EXCEPT !.final_response = HoldingResponse(st),
                    !.human_approved = "False"]
    ELSE [st EXCEPT !.final_response = HoldingResponse(st),
                    !.human_approved = "False",
                    !.error = "Escalation error"]

\* graph.py _escalate_to_human_node, the state it returns.  notify is the
\* outcome of the reviewer-notification send inside _notify_admin, which
\* catches every exception itself.
escalate_to_human_node(st, notify) ==
    [st EXCEPT !.final_response = HoldingResponse(st),
               !.human_approved = "False"]

\* The message _notify_admin builds for the reviewer
AdminNotification(st) ==
    [kind |-> "notify", to |-> AdminAddr,
     body |-> [kind |-> "admin_body", original |-> st.body,
               draft |-> st.draft_response, respond_to |-> st.from_email]]

\* graph.py _notify_admin: what the mailbox has accepted afterwards
notify_admin(box, st, notify) ==
    IF notify = "ok" THEN box \cup {AdminNotification(st)} ELSE box

\* Mutant: the draft is approved whatever the flag says
finalize_response_unconditional(st) ==
    [st EXCEPT !.final_response = st.draft_response,
               !.human_approved = "True"]

\* nodes.py finalize_response
finalize_response(st) ==
    IF ~st.human_review_required
    THEN [st EXCEPT !.final_response = st.draft_response,
                    !.human_approved = "True"]
    ELSE st

\* The message _send_email_node builds for the original sender
ReplyMessage(st) ==
    [kind |-> "reply", to |-> st.from_email, body |-> st.final_response]

\* Mutant: sent is set whatever send_email returned
send_email_node_always_sent(st, send) ==
    CASE send = "ok" -> [st EXCEPT !.sent = TRUE]
      [] send = "false" -> [st EXCEPT !.sent = TRUE]
      [] OTHER -> [st EXCEPT !.error = "Error sending email", !.sent = FALSE]

\* Mutant: a refused send records no error
send_email_node_silent_refusal(st, send) ==
    CASE send = "ok" -> [st EXCEPT !.sent = TRUE]
      [] send = "false" -> [st EXCEPT !.sent = FALSE]
      [] OTHER -> [st EXCEPT !.error = "Error sending email", !.sent = FALSE]

\* Mutant: an exception of the send is swallowed without a record
send_email_node_swallows_exception(st, send) ==
    CASE send = "ok" -> [st EXCEPT !.sent = TRUE]
      [] send = "false" -> [st EXCEPT !.sent = FALSE, !.error = "Failed to send email"]
      [] OTHER -> [st EXCEPT !.sent = FALSE]

\* graph.py _send_email_node, the state it returns
send_email_node(st, send) ==
    CASE send = "ok" -> [st EXCEPT !.sent = TRUE]
      [] send = "false" -> [st EXCEPT !.sent = FALSE, !.error = "Failed to send email"]
      [] OTHER -> [st EXCEPT !.error = "Error sending email", !.sent = FALSE]

\* ------------------------------------------------ conversation history

\* Mutant: one list object is shared by every conversation
add_message_shared_list(convs, conversation_id, role, content) ==
    [c \in DOMAIN convs \cup {conversation_id} |->
        Append(IF c \in DOMAIN convs THEN convs[c] ELSE <<>>,
               [role |-> role, content |-> content])]

\* conversation_history.py add_message (timestamps left out)
add_message(convs, conversation_id, role, content) ==
    LET base == IF conversation_id \in DOMAIN convs THEN convs[conversation_id] ELSE <<>>
    IN  [c \in DOMAIN convs \cup {conversation_id} |->
            IF c = conversation_id
            THEN Append(base, [role |-> role, content |-> content])
            ELSE convs[c]]

\* conversation_history.py save_conversation: the files afterwards
save_conversation(files, convs, conversation_id) ==
    IF conversation_id \notin DOMAIN convs THEN files
    ELSE [c \in DOMAIN files \cup {conversation_id} |->
            IF c = conversation_id THEN convs[conversation_id] ELSE files[c]]

\* The in-memory conversations after _send_email_node
ConversationsAfterSend(convs, st, send) ==
    IF send = "ok"
    THEN add_message(add_message(convs, st.email_id, "user", st.body),
                     st.email_id, "assistant", st.final_response)
    ELSE convs

\* The conversation files after _send_email_node
DiskAfterSend(files, convs, st, send) ==
    IF send = "ok"
    THEN save_conversation(files, ConversationsAfterSend(convs, st, send), st.email_id)
    ELSE files

\* The mailbox's accepted messages after _send_email_node
OutboxAfterSend(box, st, send) ==
    IF send = "ok" THEN box \cup {ReplyMessage(st)} ELSE box

\* ------------------------------------------------------------ state

VARIABLES
    from_addr,      \* inbox: message id -> From address
    seen,           \* inbox: ids carrying the \Seen flag
    hil_enabled,    \* config['human_in_loop']['enabled']
    mode,           \* which driver runs: "batch_process" (app.py) or "run_once" (main.py)
    polls,          \* receive_emails calls made so far
    runs,           \* process_email calls made so far
    dpc,            \* driver position: "idle", "loop", "run"
    batch,          \* fetched emails not yet looked at by the driver's for loop
    stats,          \* batch_process statistics
    state,          \* AgentState of the run in progress
    pc,             \* graph node the run is about to execute
    conversations,  \* ConversationHistory.conversations (in memory)
    disk,           \* <persist_directory>/<id>.json files
    outbox,         \* messages the mailbox accepted during the run in progress
    hist            \* history of the run in progress and of the inbox

vars == << from_addr, seen, hil_enabled, mode, polls, runs, dpc, batch, stats,
           state, pc, conversations, disk, outbox, hist >>

EmptyDict == [c \in {} |-> <<>>]

ZeroStats == [total |-> 0, processed |-> 0, sent |-> 0, requires_review |-> 0,
              errors |-> 0, skipped_admin |-> 0]

\* History of one run: node executions and collaborator outcomes
RunHist ==
    [n_escalate |-> 0, n_finalize |-> 0, n_send |-> 0,
     classify |-> "none", gen |-> "none", notify |-> "none", send |-> "none",
     result |-> <<>>,            \* what the classification's completion held
     kb |-> "none",              \* outcome of the knowledge-base search
     prompt |-> NoText,          \* arguments of the generation's completion call
     trace |-> <<>>,             \* nodes executed, in order
     flag_at_route |-> FALSE,
     conv_before |-> EmptyDict, disk_before |-> EmptyDict]

Init ==
    /\ from_addr \in [MsgIds -> Senders]
    /\ seen = {}
    /\ hil_enabled = TRUE
    /\ mode \in {"batch_process", "run_once"}
    /\ polls = 0
    /\ runs = 0
    /\ dpc = "idle"
    /\ batch = <<>>
    /\ stats = ZeroStats
    /\ state = IdleState
    /\ pc = "none"
    /\ conversations = EmptyDict
    /\ disk = EmptyDict
    /\ outbox = {}
    /\ hist = [run |-> RunHist,
               replies |-> [m \in MsgIds |-> 0],  \* sender-facing sends accepted, per id
               notes |-> [m \in MsgIds |-> 0],    \* reviewer notifications accepted, per id
               skipped |-> {},       \* ids the driver skipped as the approver's
               tallied |-> "none"]   \* counter the last finished run incremented

\* ----------------------------------------------------------- mailbox

\* The ids an IMAP "SEARCH UNSEEN" returns, in mailbox order
RECURSIVE UnseenFrom(_, _)
UnseenFrom(m, flagged) ==
    IF m > MaxMsgs THEN <<>>
    ELSE IF m \in flagged THEN UnseenFrom(m + 1, flagged)
    ELSE <<m>> \o UnseenFrom(m + 1, flagged)

\* message_numbers[0].split()[:limit]
Truncate(s, limit) == IF Len(s) <= limit THEN s ELSE SubSeq(s, 1, limit)

\* smtp_provider.py receive_emails: the emails returned
receive_emails(flagged, ok) ==
    IF ok THEN Truncate(UnseenFrom(1, flagged), PollLimit) ELSE <<>>

Range(s) == { s[i] : i \in DOMAIN s }

\* smtp_provider.py mark_as_read: the \Seen flags afterwards
mark_as_read(flagged, email_id, res) ==
    IF res = "ok" THEN flagged \cup {email_id} ELSE flagged

\* ------------------------------------------------------------ driver

\* app.py batch_process / main.py run_once: receive_emails and the stats
\* record.  FETCH (RFC822) on a mailbox selected read-write sets \Seen on
\* the fetched message (RFC 3501, 6.4.5) when the server keeps the flag:
\* both outcomes are possible.
Poll ==
    /\ dpc = "idle"
    /\ polls < MaxPolls
    /\ \E ok \in BOOLEAN, fetch_flags \in BOOLEAN :
          LET emails == receive_emails(seen, ok)
          IN  /\ batch' = emails
              /\ seen' = IF fetch_flags THEN seen \cup Range(emails) ELSE seen
              /\ stats' = IF mode = "batch_process"
                          THEN [ZeroStats EXCEPT !.total = Len(emails)]
                          ELSE stats
    /\ polls' = polls + 1
    /\ dpc' = "loop"
    /\ UNCHANGED << runs, from_addr, hil_enabled, mode, state, pc, conversations,
                    disk, outbox, hist >>

\* batch_process: "if approver_email and approver_email in email.from_email.lower()"
IsApprover(m) == from_addr[m] = AdminAddr

\* batch_process: the approver's own email is skipped and marked read
SkipAdmin ==
    /\ dpc = "loop"
    /\ batch # <<>>
    /\ mode = "batch_process"
    /\ IsApprover(Head(batch))
    /\ stats' = [stats EXCEPT !.skipped_admin = @ + 1]
    /\ \E res \in MarkOutputs : seen' = mark_as_read(seen, Head(batch), res)
    /\ hist' = [hist EXCEPT !.skipped = @ \cup {Head(batch)}]
    /\ batch' = Tail(batch)
    /\ UNCHANGED << runs, from_addr, hil_enabled, mode, polls, dpc, state, pc,
                    conversations, disk, outbox >>

\* graph.py process_email: the initial state handed to the graph
StartRun ==
    /\ dpc = "loop"
    /\ batch # <<>>
    /\ ~(mode = "batch_process" /\ IsApprover(Head(batch)))
    /\ runs < MaxRuns
    /\ runs' = runs + 1
    /\ state' = InitialState(Head(batch), from_addr[Head(batch)])
    /\ pc' = "classify"
    /\ dpc' = "run"
    /\ batch' = Tail(batch)
    /\ hist' = [hist EXCEPT !.run = [RunHist EXCEPT !.conv_before = conversations,
                                                    !.disk_before = disk],
                            !.tallied = "none"]
    /\ outbox' = {}
    /\ UNCHANGED << from_addr, seen, hil_enabled, mode, polls, stats,
                    conversations, disk >>

\* ---------------------------------------------------- pipeline nodes

Running(node) == dpc = "run" /\ pc = node

\* node "classify", the completion call answering with one of outputs
ClassifyFrom(outputs) ==
    /\ Running("classify")
    /\ \E llm \in outputs :
          /\ state' = classify_email(state, llm, hil_enabled)
          /\ hist' = [hist EXCEPT !.run.classify = llm.kind,
                                  !.run.result = llm.result,
                                  !.run.trace = Append(@, "classify")]
    /\ pc' = graph_edge("classify", state')
    /\ UNCHANGED << runs, from_addr, seen, hil_enabled, mode, polls, dpc, batch, stats,
                    conversations, disk, outbox >>

\* node "classify" inside the mailbox drivers
Classify == ClassifyFrom(RunClassifyOutputs)

\* node "retrieve_context"
Retrieve ==
    /\ Running("retrieve_context")
    /\ \E kb \in KBOutputs :
          /\ state' = retrieve_context(state, kb)
          /\ hist' = [hist EXCEPT !.run.kb = kb,
                                  !.run.trace = Append(@, "retrieve_context")]
    /\ pc' = graph_edge("retrieve_context", state')
    /\ UNCHANGED << runs, from_addr, seen, hil_enabled, mode, polls, dpc, batch, stats,
                    conversations, disk, outbox >>

\* node "generate_response" and the conditional edge after it
Generate ==
    /\ Running("generate_response")
    /\ \E gen \in GenOutputs :
          /\ state' = generate_response(state, gen)
          /\ hist' = [hist EXCEPT !.run.gen = gen,
                                  !.run.prompt = GenerationPrompt(state),
                                  !.run.trace = Append(@, "generate_response"),
                                  !.run.flag_at_route = state'.human_review_required]
    /\ pc' = graph_edge("generate_response", state')
    /\ UNCHANGED << runs, from_addr, seen, hil_enabled, mode, polls, dpc, batch, stats,
                    conversations, disk, outbox >>

\* node "escalate_to_human", _notify_admin included
Escalate ==
    /\ Running("escalate_to_human")
    /\ \E notify \in SendOutputs :
          /\ state' = escalate_to_human_node(state, notify)
          /\ outbox' = notify_admin(outbox, state', notify)
          /\ hist' = [hist EXCEPT !.run.n_escalate = @ + 1, !.run.notify = notify,
                                  !.run.trace = Append(@, "escalate_to_human"),
                                  !.notes[state.email_id] =
                                      IF notify = "ok" THEN @ + 1 ELSE @]
    /\ pc' = graph_edge("escalate_to_human", state')
    /\ UNCHANGED << runs, from_addr, seen, hil_enabled, mode, polls, dpc, batch, stats,
                    conversations, disk >>

\* node "finalize"
Finalize ==
    /\ Running("finalize")
    /\ state' = finalize_response(state)
    /\ hist' = [hist EXCEPT !.run.n_finalize = @ + 1,
                            !.run.trace = Append(@, "finalize")]
    /\ pc' = graph_edge("finalize", state')
    /\ UNCHANGED << runs, from_addr, seen, hil_enabled, mode, polls, dpc, batch, stats,
                    conversations, disk, outbox >>

\* node "send_email"; the edge to END
Send ==
    /\ Running("send_email")
    /\ \E send \in SendOutputs :
          /\ state' = send_email_node(state, send)
          /\ outbox' = OutboxAfterSend(outbox, state, send)
          /\ conversations' = ConversationsAfterSend(conversations, state, send)
          /\ disk' = DiskAfterSend(disk, conversations, state, send)
          /\ hist' = [hist EXCEPT !.run.n_send = @ + 1, !.run.send = send,
                                  !.run.trace = Append(@, "send_email"),
                                  !.replies[state.email_id] =
                                      IF send = "ok" THEN @ + 1 ELSE @]
    /\ pc' = graph_edge("send_email", state')
    /\ UNCHANGED << runs, from_addr, seen, hil_enabled, mode, polls, dpc, batch, stats >>

\* --------------------------------------------- driver, after the run

\* batch_process: the counter the if/elif chain over the result increments
TalliedCounter(result) ==
    IF result.sent THEN "sent"
    ELSE IF result.human_review_required THEN "requires_review"
    ELSE IF result.error # "None" THEN "errors"
    ELSE "none"

\* batch_process: stats after one process_email result
tally(st, result) ==
    LET counted == [st EXCEPT !.processed = @ + 1]
        which == TalliedCounter(result)
    IN  CASE which = "sent" -> [counted EXCEPT !.sent = @ + 1]
          [] which = "requires_review" -> [counted EXCEPT !.requires_review = @ + 1]
          [] which = "errors" -> [counted EXCEPT !.errors = @ + 1]
          [] OTHER -> counted

\* run_once: the line the if/elif/else over the result prints
run_once_report(result) ==
    IF result.sent THEN "sent"
    ELSE IF result.error # "None" THEN "error"
    ELSE "not sent (human declined)"

\* Whether the driver calls mark_as_read for a result
marks_read(result) == result.sent

\* batch_process / run_once: the result of process_email is counted and the
\* message marked read when it was sent
Tally ==
    /\ Running("END")
    /\ stats' = IF mode = "batch_process" THEN tally(stats, state) ELSE stats
    /\ \E res \in MarkOutputs :
          seen' = IF marks_read(state) THEN mark_as_read(seen, state.email_id, res)
                  ELSE seen
    /\ hist' = [hist EXCEPT !.run = RunHist,
                            !.tallied = IF mode = "batch_process"
                                        THEN TalliedCounter(state) ELSE "none"]
    /\ state' = IdleState
    /\ pc' = "none"
    /\ dpc' = "loop"
    /\ UNCHANGED << runs, from_addr, hil_enabled, mode, polls, batch, conversations,
                    disk, outbox >>

\* The for loop is over: batch_process returns the stats, run_once returns
EndBatch ==
    /\ dpc = "loop"
    /\ batch = <<>>
    /\ dpc' = "idle"
    /\ UNCHANGED << runs, from_addr, seen, hil_enabled, mode, polls, batch, stats, state,
                    pc, conversations, disk, outbox, hist >>

Next ==
    \/ Poll
    \/ SkipAdmin
    \/ StartRun
    \/ Classify
    \/ Retrieve
    \/ Generate
    \/ Escalate
    \/ Finalize
    \/ Send
    \/ Tally
    \/ EndBatch

Spec == Init /\ [][Next]_vars

\* ------------------------------------- one message, handed in directly

\* app.py process_email (POST /process): one email is handed to
\* agent.process_email with no mailbox poll around it.  The configuration may
\* have human-in-the-loop on or off.
InitRun ==
    /\ \E sender \in Senders : from_addr = [m \in MsgIds |-> sender]
    /\ seen = {}
    /\ hil_enabled \in BOOLEAN
    /\ mode = "process_email"
    /\ polls = 0
    /\ runs = 1
    /\ dpc = "run"
    /\ batch = <<>>
    /\ stats = ZeroStats
    /\ state = InitialState(1, from_addr[1])
    /\ pc = "classify"
    /\ conversations = EmptyDict
    /\ disk = EmptyDict
    /\ outbox = {}
    /\ hist = [run |-> RunHist,
               replies |-> [m \in MsgIds |-> 0],
               notes |-> [m \in MsgIds |-> 0],
               skipped |-> {},
               tallied |-> "none"]

\* node "classify", the completion free to answer with any parsed object
ClassifyWide == ClassifyFrom(WideClassifyOutputs)

NextRun ==
    \/ ClassifyWide
    \/ Retrieve
    \/ Generate
    \/ Escalate
    \/ Finalize
    \/ Send

SpecRun == InitRun /\ [][NextRun]_vars

\* graph.ainvoke runs the next node as soon as the previous one returned:
\* a run that can take a step eventually takes one
SpecRunFair == SpecRun /\ WF_vars(NextRun)

\* ------------------------------------ the conversation log on its own

MaxEntries == 2

\* Python values a caller can put into an entry's metadata
PyNone == [py |-> "none"]
PyStr(v) == [py |-> "str", v |-> v]
PyList(items) == [py |-> "list", items |-> items]
PyTuple(items) == [py |-> "tuple", items |-> items]
PyDict(items) == [py |-> "dict", items |-> items]

\* json.dump of a value that is not a dict: tuples and lists both become arrays
json_dump_value(v) ==
    CASE v.py = "none" -> [json |-> "null"]
      [] v.py = "str" -> [json |-> "string", v |-> v.v]
      [] v.py \in {"list", "tuple"} -> [json |-> "array", items |-> v.items]

\* json.load of a value that is not an object: arrays become lists
json_load_value(j) ==
    CASE j.json = "null" -> PyNone
      [] j.json = "string" -> PyStr(j.v)
      [] j.json = "array" -> PyList(j.items)

\* json.dump of a message dict: role and content are strings, metadata a dict
json_dump_message(e) ==
    [role |-> e.role, content |-> e.content,
     metadata |-> [json |-> "object",
                   items |-> [k \in DOMAIN e.metadata.items |->
                                 json_dump_value(e.metadata.items[k])]]]

\* json.load of a message object
json_load_message(j) ==
    [role |-> j.role, content |-> j.content,
     metadata |-> PyDict([k \in DOMAIN j.metadata.items |->
                            json_load_value(j.metadata.items[k])])]

\* Mutant: the metadata of every message is written as an empty object
json_dump_no_metadata(conversation) ==
    [i \in DOMAIN conversation |->
        [role |-> conversation[i].role, content |-> conversation[i].content,
         metadata |-> [json |-> "object", items |-> EmptyDict]]]

\* json.dump(self.conversations[conversation_id], f): the document written
json_dump(conversation) ==
    [i \in DOMAIN conversation |-> json_dump_message(conversation[i])]

\* json.load(f): the list read back
json_load(document) ==
    [i \in DOMAIN document |-> json_load_message(document[i])]

\* conversation_history.py add_message with its metadata argument
\* (metadata or {}; timestamps left out)
add_message_with_metadata(convs, conversation_id, role, content, metadata) ==
    LET base == IF conversation_id \in DOMAIN convs THEN convs[conversation_id] ELSE <<>>
        message == [role |-> role, content |-> content,
                    metadata |-> IF metadata = PyNone THEN PyDict(EmptyDict)
                                 ELSE metadata]
    IN  [c \in DOMAIN convs \cup {conversation_id} |->
            IF c = conversation_id THEN Append(base, message) ELSE convs[c]]

\* conversation_history.py save_conversation with the JSON encoding: the files
\* afterwards (open(file_path, 'w') replaces the file)
save_conversation_json(files, convs, conversation_id) ==
    IF conversation_id \notin DOMAIN convs THEN files
    ELSE [c \in DOMAIN files \cup {conversation_id} |->
            IF c = conversation_id THEN json_dump(convs[conversation_id]) ELSE files[c]]

\* conversation_history.py load_conversation: the in-memory dict afterwards
load_conversation(convs, files, conversation_id) ==
    IF conversation_id \notin DOMAIN files THEN convs
    ELSE [c \in DOMAIN convs \cup {conversation_id} |->
            IF c = conversation_id THEN json_load(files[conversation_id]) ELSE convs[c]]

\* conversation_history.py delete_conversation: a dict without the id
delete_conversation(d, conversation_id) ==
    [c \in DOMAIN d \ {conversation_id} |-> d[c]]

\* The conversation ids and the (role, content, metadata) arguments the
\* callers of the log use: no metadata, a list in it, a tuple in it
LogIds == {"c1"}
LogMessages ==
    { [role |-> "user", content |-> "question", metadata |-> PyNone],
      [role |-> "assistant", content |-> "answer",
       metadata |-> PyDict([topics |-> PyList(<<"legal", "billing">>)])],
      [role |-> "assistant", content |-> "answer",
       metadata |-> PyDict([pair |-> PyTuple(<<"legal", "billing">>)])] }

\* Everything but the log, as after construction
notLog == << from_addr, seen, hil_enabled, mode, polls, runs, dpc, batch, stats,
             state, pc, outbox, hist >>

\* ConversationHistory.__init__ on an empty persist directory
InitLog ==
    /\ from_addr = [m \in MsgIds |-> CustomerAddr]
    /\ seen = {}
    /\ hil_enabled = TRUE
    /\ mode = "conversation_history"
    /\ polls = 0
    /\ runs = 0
    /\ dpc = "idle"
    /\ batch = <<>>
    /\ stats = ZeroStats
    /\ state = IdleState
    /\ pc = "none"
    /\ conversations = EmptyDict
    /\ disk = EmptyDict
    /\ outbox = {}
    /\ hist = [run |-> RunHist,
               replies |-> [m \in MsgIds |-> 0],
               notes |-> [m \in MsgIds |-> 0],
               skipped |-> {},
               tallied |-> "none"]

\* add_message(conversation_id, role, content, metadata)
LogAppend ==
    /\ \E c \in LogIds, msg \in LogMessages :
          /\ c \in DOMAIN conversations => Len(conversations[c]) < MaxEntries
          /\ conversations' = add_message_with_metadata(conversations, c, msg.role,
                                                         msg.content, msg.metadata)
    /\ UNCHANGED << disk, notLog >>

\* save_conversation(conversation_id)
LogFlush ==
    /\ \E c \in LogIds : disk' = save_conversation_json(disk, conversations, c)
    /\ UNCHANGED << conversations, notLog >>

\* load_conversation(conversation_id)
LogLoad ==
    /\ \E c \in LogIds : conversations' = load_conversation(conversations, disk, c)
    /\ UNCHANGED << disk, notLog >>

\* delete_conversation(conversation_id)
LogDelete ==
    /\ \E c \in LogIds :
          /\ c \in DOMAIN conversations \/ c \in DOMAIN disk
          /\ conversations' = delete_conversation(conversations, c)
          /\ disk' = delete_conversation(disk, c)
    /\ UNCHANGED notLog

\* The process ends and a new one constructs ConversationHistory: the
\* in-memory dict starts empty, the files stay
LogRestart ==
    /\ conversations # EmptyDict
    /\ conversations' = EmptyDict
    /\ UNCHANGED << disk, notLog >>

NextLog ==
    \/ LogAppend
    \/ LogFlush
    \/ LogLoad
    \/ LogDelete
    \/ LogRestart

SpecLog == InitLog /\ [][NextLog]_vars

\* ------------------------------------------ sender display names

\* Address strings are sequences of one-character strings
LowerLetters ==
    <<"a", "b", "c", "d", "e", "f", "g", "h", "i", "j", "k", "l", "m", "n", "o", "p", "q", "r", "s", "t", "u", "v", "w", "x", "y", "z">>
UpperLetters ==
    <<"A", "B", "C", "D", "E", "F", "G", "H", "I", "J", "K", "L", "M", "N", "O", "P", "Q", "R", "S", "T", "U", "V", "W", "X", "Y", "Z">>
Digits == {"0", "1", "2", "3", "4", "5", "6", "7", "8", "9"}
Whitespace == {" "}

LetterIndex(letters, c) == CHOOSE i \in DOMAIN letters : letters[i] = c
IsLower(c) == \E i \in DOMAIN LowerLetters : LowerLetters[i] = c
IsUpper(c) == \E i \in DOMAIN UpperLetters : UpperLetters[i] = c
IsCased(c) == IsLower(c) \/ IsUpper(c)
UpperChar(c) == IF IsLower(c) THEN UpperLetters[LetterIndex(LowerLetters, c)] ELSE c
LowerChar(c) == IF IsUpper(c) THEN LowerLetters[LetterIndex(UpperLetters, c)] ELSE c

\* c in s
Contains(s, c) == \E i \in DOMAIN s : s[i] = c

\* s.split(c)[0]
SplitFirst(s, c) ==
    IF Contains(s, c)
    THEN SubSeq(s, 1, (CHOOSE i \in DOMAIN s : s[i] = c /\ \A j \in 1..(i - 1) : s[j] # c) - 1)
    ELSE s

\* s.strip(chars)
Strip(s, chars) ==
    LET kept == { i \in DOMAIN s : s[i] \notin chars }
    IN  IF kept = {} THEN <<>>
        ELSE SubSeq(s, CHOOSE i \in kept : \A j \in kept : i <= j,
                       CHOOSE i \in kept : \A j \in kept : i >= j)

\* s.isdigit()
isdigit(s) == s # <<>> /\ \A i \in DOMAIN s : s[i] \in Digits

\* s.replace(c, '')
Remove(s, c) == SelectSeq(s, LAMBDA x : x # c)

\* s.replace(c, ' ') for each c in chars
ReplaceBySpace(s, chars) == [i \in DOMAIN s |-> IF s[i] \in chars THEN " " ELSE s[i]]

\* s.title()
title(s) ==
    [i \in DOMAIN s |->
        IF i > 1 /\ IsCased(s[i - 1]) THEN LowerChar(s[i]) ELSE UpperChar(s[i])]

\* len(s.split())
WordCount(s) ==
    Cardinality({ i \in DOMAIN s :
                    s[i] \notin Whitespace /\ (i = 1 \/ s[i - 1] \in Whitespace) })

ValuedCustomer == <<"V", "a", "l", "u", "e", "d", " ", "C", "u", "s", "t", "o", "m", "e", "r">>

\* Mutant: the display name is taken without the test that it is not empty
extract_name_unchecked(from_email) ==
    LET name_part == Strip(Strip(Strip(SplitFirst(from_email, "<"), Whitespace), {"\""}), {"'"})
        email_clean == Strip(Remove(Remove(from_email, "<"), ">"), Whitespace)
        username == ReplaceBySpace(SplitFirst(email_clean, "@"), {".", "_", "-"})
        name == title(username)
    IN  IF /\ Contains(from_email, "<") /\ Contains(from_email, ">")
           /\ ~isdigit(name_part)
        THEN name_part
        ELSE IF /\ username # <<>> /\ ~isdigit(username)
                /\ WordCount(name) \in 1..3
                /\ \A i \in DOMAIN name : name[i] \notin Digits
        THEN name
        ELSE ValuedCustomer

\* nodes.py _extract_name
extract_name(from_email) ==
    LET name_part == Strip(Strip(Strip(SplitFirst(from_email, "<"), Whitespace), {"\""}), {"'"})
        email_clean == Strip(Remove(Remove(from_email, "<"), ">"), Whitespace)
        username == ReplaceBySpace(SplitFirst(email_clean, "@"), {".", "_", "-"})
        name == title(username)
    IN  IF /\ Contains(from_email, "<") /\ Contains(from_email, ">")
           /\ name_part # <<>> /\ Len(name_part) > 1 /\ ~isdigit(name_part)
        THEN name_part
        ELSE IF /\ username # <<>> /\ ~isdigit(username)
                /\ WordCount(name) \in 1..3
                /\ \A i \in DOMAIN name : name[i] \notin Digits
        THEN name
        ELSE ValuedCustomer

\* Addresses "display <local@x.com>" and "local@x.com"
MailDomain == <<"@", "x", ".", "c", "o", "m">>
WithDisplay(display, local) == display \o << " ", "<" >> \o local \o MailDomain \o << ">" >>
Bare(local) == local \o MailDomain

DisplayNames ==
    { <<"J", "a", "n", "e", " ", "D", "o", "e">>,
      <<"\"", "J", "a", "n", "e", "\"">>,
      <<"1", "2", "3", "4", "5">>,
      <<"J">> }
LocalParts ==
    { <<"j", "a", "n", "e">>,
      <<"j", ".", "d", "o", "e">>,
      <<"j", "_", "d", "-", "e">>,
      <<"a", ".", "b", ".", "c", ".", "d">>,
      <<"j", "a", "n", "e", "9", "9">>,
      <<"1", "2", "3", "4", "5">> }

\* Every string of at most MaxAddrLen characters over these: among them the
\* empty string, digit-only, bracket-only and other malformed addresses
MaxAddrLen == 3
AddrChars == {"j", "D", "1", " ", "<", ">", "@", ".", "\""}
ShortStrings == UNION { [1..n -> AddrChars] : n \in 0..MaxAddrLen }

\* The from_email values _extract_name is applied to, with the display name
\* and local part an address was written from
NameInputs ==
    { [from_email |-> WithDisplay(d, l), display |-> Some(d), local |-> Some(l)] :
        d \in DisplayNames, l \in LocalParts }
    \cup { [from_email |-> Bare(l), display |-> NoneVal, local |-> Some(l)] : l \in LocalParts }
    \cup { [from_email |-> t, display |-> NoneVal, local |-> NoneVal] : t \in ShortStrings }

\* generate_response is entered with some from_email; state holds the input
\* and, once _extract_name returned, the customer name
InitNames ==
    /\ from_addr = [m \in MsgIds |-> CustomerAddr]
    /\ seen = {}
    /\ hil_enabled = TRUE
    /\ mode = "process_email"
    /\ polls = 0
    /\ runs = 0
    /\ dpc = "names"
    /\ batch = <<>>
    /\ stats = ZeroStats
    /\ \E input \in NameInputs :
          state = [from_email |-> input.from_email, display |-> input.display,
                   local |-> input.local, customer_name |-> NoneVal]
    /\ pc = "extract_name"
    /\ conversations = EmptyDict
    /\ disk = EmptyDict
    /\ outbox = {}
    /\ hist = [run |-> RunHist,
               replies |-> [m \in MsgIds |-> 0],
               notes |-> [m \in MsgIds |-> 0],
               skipped |-> {},
               tallied |-> "none"]

\* customer_name = self._extract_name(state['from_email'])
ExtractName ==
    /\ dpc = "names"
    /\ pc = "extract_name"
    /\ state' = [state EXCEPT !.customer_name = Some(extract_name(state.from_email))]
    /\ pc' = "done"
    /\ UNCHANGED << from_addr, seen, hil_enabled, mode, polls, runs, dpc, batch, stats,
                    conversations, disk, outbox, hist >>

NextNames == ExtractName

SpecNames == InitNames /\ [][NextNames]_vars

\* ------------------------------------ intake of one inbound message

\* An inbound message as it arrives: each of the three required fields is
\* absent (no JSON key, no header, no text/plain part), empty, or has text
RequiredFields == {"from_email", "subject", "body"}
InboundMessages == [RequiredFields -> {"absent", "empty", "text"}]

\* app.py process_email: all(k in data for k in ['from_email', 'subject', 'body'])
api_validate(data) == \A k \in RequiredFields : data[k] # "absent"

\* smtp_provider.py receive_emails: whether ReceivedEmail(...) can be built.
\* from_email=email_message['From'] is None without the header, which the
\* str field refuses (the except branch then returns no emails); a missing
\* Subject becomes "" and a missing text part leaves body = "".
received_email_builds(msg) == msg.from_email # "absent"

\* Whether the entry point hands the message to agent.process_email
starts_run(entry, msg) ==
    IF entry = "process_email" THEN api_validate(msg)
    ELSE received_email_builds(msg)

\* The from_email of the run of an inbound message
SenderOf(msg) == IF msg.from_email = "text" THEN CustomerAddr ELSE ""

\* One message arrives at one of the three entry points
InitIntake ==
    /\ from_addr = [m \in MsgIds |-> CustomerAddr]
    /\ seen = {}
    /\ hil_enabled = TRUE
    /\ mode \in {"process_email", "batch_process", "run_once"}
    /\ polls = 0
    /\ runs = 0
    /\ dpc = "intake"
    /\ batch \in { <<msg>> : msg \in InboundMessages }
    /\ stats = ZeroStats
    /\ state = IdleState
    /\ pc = "none"
    /\ conversations = EmptyDict
    /\ disk = EmptyDict
    /\ outbox = {}
    /\ hist = [run |-> RunHist,
               replies |-> [m \in MsgIds |-> 0],
               notes |-> [m \in MsgIds |-> 0],
               skipped |-> {},
               tallied |-> "none"]

\* The entry point looks at the message: it starts a run or turns it away
Intake ==
    /\ dpc = "intake"
    /\ IF starts_run(mode, Head(batch))
       THEN /\ state' = InitialState(1, SenderOf(Head(batch)))
            /\ pc' = "classify"
            /\ dpc' = "run"
            /\ runs' = runs + 1
       ELSE /\ dpc' = "rejected"
            /\ UNCHANGED << state, pc, runs >>
    /\ UNCHANGED << from_addr, seen, hil_enabled, mode, polls, batch, stats,
                    conversations, disk, outbox, hist >>

NextIntake ==
    \/ Intake
    \/ Classify
    \/ Retrieve
    \/ Generate
    \/ Escalate
    \/ Finalize
    \/ Send

SpecIntake == InitIntake /\ [][NextIntake]_vars

\* ------------------------------- runs of distinct ids, logging at once

\* The state of the run of m when _send_email_node has sent its reply
SentState(m, final_response) ==
    [InitialState(m, CustomerAddr) EXCEPT !.final_response = final_response,
                                          !.sent = TRUE]

\* One request per id is inside _send_email_node, its send accepted, about
\* to log (the API serves requests in threads that share the agent and its
\* ConversationHistory).  Here state and pc hold one entry per run.
InitWriters ==
    /\ from_addr = [m \in MsgIds |-> CustomerAddr]
    /\ seen = {}
    /\ hil_enabled = TRUE
    /\ mode = "process_email"
    /\ polls = 0
    /\ runs = MaxMsgs
    /\ dpc = "run"
    /\ batch = <<>>
    /\ stats = ZeroStats
    /\ state \in [MsgIds -> UNION { { SentState(m, GeneratedDraft(InitialState(m, CustomerAddr))),
                                       SentState(m, FallbackDraft(InitialState(m, CustomerAddr))),
                                       SentState(m, HoldingResponse(InitialState(m, CustomerAddr))) }
                                     : m \in MsgIds }]
    /\ \A m \in MsgIds : state[m].email_id = m
    /\ pc = [m \in MsgIds |-> "add_user"]
    /\ conversations = EmptyDict
    /\ disk = EmptyDict
    /\ outbox = {}
    /\ hist = [run |-> RunHist,
               replies |-> [m \in MsgIds |-> 1],
               notes |-> [m \in MsgIds |-> 0],
               skipped |-> {},
               tallied |-> "none"]

notWriters == << from_addr, seen, hil_enabled, mode, polls, runs, dpc, batch, stats,
                 state, outbox, hist >>

\* _send_email_node: add_message(..., role="user", content=state['body'], ...)
WriterAddUser ==
    /\ \E m \in MsgIds :
          /\ pc[m] = "add_user"
          /\ conversations' = add_message(conversations, m, "user", state[m].body)
          /\ pc' = [pc EXCEPT ![m] = "add_assistant"]
    /\ UNCHANGED << disk, notWriters >>

\* _send_email_node: add_message(..., role="assistant", content=state['final_response'], ...)
WriterAddAssistant ==
    /\ \E m \in MsgIds :
          /\ pc[m] = "add_assistant"
          /\ conversations' = add_message(conversations, m, "assistant",
                                           state[m].final_response)
          /\ pc' = [pc EXCEPT ![m] = "save"]
    /\ UNCHANGED << disk, notWriters >>

\* _send_email_node: save_conversation(state['email_id'])
WriterSave ==
    /\ \E m \in MsgIds :
          /\ pc[m] = "save"
          /\ disk' = save_conversation(disk, conversations, m)
          /\ pc' = [pc EXCEPT ![m] = "done"]
    /\ UNCHANGED << conversations, notWriters >>

NextWriters ==
    \/ WriterAddUser
    \/ WriterAddAssistant
    \/ WriterSave

SpecWriters == InitWriters /\ [][NextWriters]_vars

\* ------------------------------------------------------------ claims

Escalated == dpc = "run" /\ hist.run.n_escalate = 1

\* C1: after the generation step exactly one of the escalation node and the
\* finalize node executes, and it is the escalation node if and only if the
\* run's escalation flag is true when the conditional edge is taken.
C1_ExactlyOneBranch ==
    dpc = "run" =>
        /\ pc \in {"classify", "retrieve_context", "generate_response"}
              => hist.run.n_escalate = 0 /\ hist.run.n_finalize = 0
        /\ pc \in {"escalate_to_human", "finalize"}
              => /\ hist.run.n_escalate = 0 /\ hist.run.n_finalize = 0
                 /\ (pc = "escalate_to_human") <=> hist.run.flag_at_route
        /\ pc \in {"send_email", "END"}
              => /\ hist.run.n_escalate + hist.run.n_finalize = 1
                 /\ (hist.run.n_escalate = 1) <=> hist.run.flag_at_route
                 /\ hist.run.flag_at_route = state.human_review_required

C1_Witness == Running("END") /\ hist.run.n_escalate = 1 /\ hist.run.flag_at_route

\* C2: sent = true implies that the final reply is present and that the
\* mailbox accepted exactly that text, addressed to the original sender.
C2_SentImpliesAccepted ==
    state.sent =>
        /\ state.final_response # NoText
        /\ hist.run.send = "ok"
        /\ [kind |-> "reply", to |-> state.from_email, body |-> state.final_response]
              \in outbox

C2_Witness == Running("END") /\ state.sent /\ state.final_response.kind = "draft"

\* C3 (as claimed): a message carries the \Seen flag only after a run of it
\* ended with a successful dispatch; a message with no successful dispatch
\* stays unread (and so is returned by the next UNSEEN search).
C3_ReadOnlyAfterDispatch ==
    \A m \in MsgIds : m \in seen => hist.replies[m] > 0

ErrorFrom(classify, gen, send) ==
    CASE send = "false" -> "Failed to send email"
      [] send = "raise" -> "Error sending email"
      [] gen = "raise" -> "Response generation failed"
      [] classify \in {"raise", "badjson"} -> "Classification failed"
      [] OTHER -> "None"

\* C5: in an escalated run the outcome of the reviewer notification (sent,
\* refused, raised) changes nothing else: the holding reply is sent, and
\* sent, final reply and error are what the sender-facing send alone makes them.
C5_NotificationIndependent ==
    (Running("END") /\ Escalated) =>
        /\ state.final_response = HoldingResponse(state)
        /\ state.sent = (hist.run.send = "ok")
        /\ state.sent => ReplyMessage(state) \in outbox
        /\ state.error = ErrorFrom(hist.run.classify, hist.run.gen, hist.run.send)

C5_Witness ==
    /\ Running("END") /\ Escalated
    /\ hist.run.notify = "raise"
    /\ state.sent
    /\ state.error = "None"

\* C6 (as claimed): a run that ends unsent, or that ends with an error,
\* leaves the conversation log of every id unchanged, in memory and on disk.
C6_NoLogUnlessClean ==
    (Running("END") /\ (~state.sent \/ state.error # "None")) =>
        /\ conversations = hist.run.conv_before
        /\ disk = hist.run.disk_before

\* C7 (as claimed): when the sender-facing send succeeds, sent is true and the
\* durable record of the run's id holds exactly 2 entries, the inbound body
\* and then the final reply.
C7_ExactlyTwoEntries ==
    (Running("END") /\ hist.run.send = "ok") =>
        /\ state.sent
        /\ state.email_id \in DOMAIN disk
        /\ disk[state.email_id] =
              << [role |-> "user", content |-> state.body],
                 [role |-> "assistant", content |-> state.final_response] >>

\* C8 (as claimed): at the end of a run the error field is set only if the
\* dispatch failed; a run whose send succeeded ends with no error.
C8_ErrorOnlyOnDispatchFailure ==
    Running("END") =>
        /\ state.error # "None" => hist.run.send # "ok"
        /\ state.sent => state.error = "None"

\* C9 (as claimed): batch_process increments 'errors' for a processed run if
\* and only if the run's dispatch failed.
C9_ErrorsIffDispatchFailed ==
    [][(Running("END") /\ mode = "batch_process") =>
          ((stats'.errors = stats.errors + 1) <=> hist.run.send # "ok")]_vars

\* C10 (as claimed): when no structured result can be parsed from the
\* completion text (no block, or a malformed block) the step stores the
\* default Classification, records no error and does not escalate.
C10_DefaultOnParseFailure ==
    (Running("retrieve_context") /\ hist.run.classify \in {"nojson", "badjson"}) =>
        /\ state.classification = Some(EmailClassification(FallbackResult, FALSE))
        /\ state.error = "None"
        /\ ~state.human_review_required

\* C11: when the completion call of the classification step fails, an error
\* is recorded, the classification stays absent and the flag false; the run
\* goes on through retrieval and generation, which is prompted with category
\* general and urgency medium, takes the finalize branch and is dispatched.
C11_ClassifyFailureContinues ==
    (dpc = "run" /\ hist.run.classify = "raise") =>
        /\ IsNone(state.classification)
        /\ ~state.human_review_required
        /\ state.error # "None"
        /\ pc = "retrieve_context" => state.error = "Classification failed"
        /\ hist.run.n_escalate = 0
        /\ pc \in {"retrieve_context", "generate_response", "finalize", "send_email", "END"}
        /\ pc # "END" => ENABLED (Retrieve \/ Generate \/ Finalize \/ Send)
        /\ pc \in {"finalize", "send_email", "END"}
              => /\ hist.run.prompt.category = "general"
                 /\ hist.run.prompt.urgency = "medium"
        /\ pc = "END"
              => hist.run.trace = << "classify", "retrieve_context", "generate_response",
                                     "finalize", "send_email" >>

C11_Witness ==
    /\ Running("END") /\ hist.run.classify = "raise"
    /\ hist.run.n_finalize = 1 /\ hist.run.n_send = 1
    /\ state.sent /\ state.final_response = GeneratedDraft(state)

\* The parsed object the classification step of the run in progress decided on
Decided ==
    /\ Running("retrieve_context")
    /\ hist.run.classify = "json"

DecisionReturned ==
    /\ state.human_review_required
    /\ TheVal(state.classification).requires_human_review

\* C12 (as claimed): for every classification whose urgency is high or
\* critical the escalation decision returns true, whatever the complexity
\* score and the sensitive topics.
C12_UrgencyEscalates ==
    (/\ Decided
     /\ "urgency" \in DOMAIN hist.run.result
     /\ hist.run.result.urgency \in {"high", "critical"})
        => DecisionReturned

\* C12 (amended): with human-in-the-loop enabled, for every classification
\* whose urgency is high or critical the escalation decision returns true,
\* whatever the complexity score and the sensitive topics.
C12_UrgencyEscalatesWhenEnabled ==
    (/\ Decided
     /\ hil_enabled
     /\ "urgency" \in DOMAIN hist.run.result
     /\ hist.run.result.urgency \in {"high", "critical"})
        => DecisionReturned

C12_Witness ==
    /\ Decided /\ hil_enabled
    /\ Get(hist.run.result, "urgency", "") = "high"
    /\ Get(hist.run.result, "complexity_score", 10) = 0
    /\ Get(hist.run.result, "sensitive_topics", {"legal"}) = {}
    /\ DecisionReturned

\* C13 (as claimed): for every classification whose complexity score is at
\* or above the configured threshold the escalation decision returns true,
\* whatever the urgency and the sensitive topics.
C13_ComplexityEscalates ==
    (/\ Decided
     /\ "complexity_score" \in DOMAIN hist.run.result
     /\ hist.run.result.complexity_score >= ComplexityThreshold)
        => DecisionReturned

\* C13 (amended): with human-in-the-loop enabled, for every classification
\* whose complexity score is at or above the configured threshold the
\* escalation decision returns true, whatever the urgency and the topics.
C13_ComplexityEscalatesWhenEnabled ==
    (/\ Decided
     /\ hil_enabled
     /\ "complexity_score" \in DOMAIN hist.run.result
     /\ hist.run.result.complexity_score >= ComplexityThreshold)
        => DecisionReturned

C13_Witness ==
    /\ Decided /\ hil_enabled
    /\ Get(hist.run.result, "urgency", "") = "low"
    /\ Get(hist.run.result, "complexity_score", 0) = ComplexityThreshold
    /\ Get(hist.run.result, "sensitive_topics", {"legal"}) = {}
    /\ DecisionReturned

\* A classification of low or medium urgency and complexity below the threshold
LowAndSimple ==
    /\ Decided
    /\ {"urgency", "complexity_score"} \subseteq DOMAIN hist.run.result
    /\ hist.run.result.urgency \in {"low", "medium"}
    /\ hist.run.result.complexity_score < ComplexityThreshold

\* The sensitive rule of the decision, on the parsed object of the run
TagAndFloor ==
    /\ Get(hist.run.result, "sensitive_topics", {}) \cap SensitiveVocabulary # {}
    /\ hist.run.result.complexity_score >= SensitiveComplexityFloor

\* C14 (as claimed): for every classification with urgency low or medium and
\* complexity below 0.7, the decision returns true exactly when at least one
\* tag is in the sensitive vocabulary and the complexity is at least 0.5.
C14_SensitiveRule ==
    LowAndSimple => (state.human_review_required <=> TagAndFloor)

\* C14 (amended): with human-in-the-loop enabled, for every classification
\* with urgency low or medium and complexity below 0.7, the decision returns
\* true exactly when at least one tag is in the sensitive vocabulary and the
\* complexity is at least 0.5.
C14_SensitiveRuleWhenEnabled ==
    (LowAndSimple /\ hil_enabled) =>
        /\ state.human_review_required <=> TagAndFloor
        /\ TheVal(state.classification).requires_human_review <=> TagAndFloor

C14_Witness ==
    /\ LowAndSimple /\ hil_enabled
    /\ hist.run.result.urgency = "medium"
    /\ hist.run.result.complexity_score = SensitiveComplexityFloor + 1
    /\ Get(hist.run.result, "sensitive_topics", {}) = {"legal"}
    /\ DecisionReturned

IsPrefix(t, u) == Len(t) <= Len(u) /\ SubSeq(u, 1, Len(t)) = t

\* The two node sequences of a whole run
EscalatedRun ==
    << "classify", "retrieve_context", "generate_response", "escalate_to_human",
       "send_email" >>
FinalizedRun ==
    << "classify", "retrieve_context", "generate_response", "finalize", "send_email" >>

\* C15: within one run the nodes execute in the order classify, retrieve,
\* generate, escalate-or-finalize, send, each at most once; each node makes
\* its one collaborator call, no failed call is retried and send_email is not
\* entered again once the run is done.
C15_PipelineOrder ==
    dpc = "run" =>
        /\ IsPrefix(hist.run.trace, EscalatedRun) \/ IsPrefix(hist.run.trace, FinalizedRun)
        /\ pc = "END" <=> Len(hist.run.trace) = Len(EscalatedRun)
        /\ pc # "END" => pc = (IF IsPrefix(hist.run.trace \o <<pc>>, EscalatedRun)
                               THEN EscalatedRun ELSE FinalizedRun)[Len(hist.run.trace) + 1]
        /\ hist.run.n_send <= 1
        /\ hist.run.n_send = 1 <=> pc = "END"
        /\ (hist.run.classify # "none") <=> Len(hist.run.trace) >= 1
        /\ (hist.run.kb # "none") <=> Len(hist.run.trace) >= 2
        /\ (hist.run.gen # "none") <=> Len(hist.run.trace) >= 3
        /\ pc = "END" => ~ENABLED Send

C15_Witness ==
    /\ Running("END")
    /\ hist.run.trace = EscalatedRun
    /\ hist.run.classify = "json" /\ hist.run.kb = "raise" /\ hist.run.gen = "raise"
    /\ hist.run.send = "false"

\* C16: the escalation flag is written by the classification step only:
\* retrieval, generation, escalation, finalization and dispatch leave it and
\* the stored classification unchanged, and the branch after generation is
\* the escalation node exactly when that flag is true.
C16_FlagWrittenOnlyByClassify ==
    [][(dpc = "run" /\ dpc' = "run" /\ pc # "classify") =>
          /\ state'.human_review_required = state.human_review_required
          /\ state'.classification = state.classification
          /\ pc = "generate_response" =>
                pc' = IF state.human_review_required
                      THEN "escalate_to_human" ELSE "finalize"]_vars

C16_Witness ==
    /\ Running("END")
    /\ state.human_review_required
    /\ hist.run.trace = EscalatedRun
    /\ hist.run.gen = "raise" /\ hist.run.notify = "raise" /\ hist.run.send = "raise"

\* C17: when the sender-facing send returns false or raises, the run ends
\* with sent false and an error recorded, nothing reached the sender, and
\* the send is not attempted again in that run.
C17_SendFailureRecorded ==
    (dpc = "run" /\ hist.run.send \in {"false", "raise"}) =>
        /\ pc = "END"
        /\ ~state.sent
        /\ state.error = IF hist.run.send = "false" THEN "Failed to send email"
                          ELSE "Error sending email"
        /\ \A msg \in outbox : msg.kind # "reply"
        /\ hist.run.n_send = 1
        /\ ~ENABLED Send

C17_Witness ==
    /\ Running("END") /\ hist.run.send = "false"
    /\ ~state.sent /\ state.error = "Failed to send email"
    /\ hist.run.n_finalize = 1

\* C18: when the completion call of the generation step fails, the draft is
\* the fallback reply with the signature and an error is recorded; the run
\* goes on to the branch and to dispatch, and on the finalize branch the
\* fallback is the final reply that is sent.
C18_GenerationFallback ==
    (dpc = "run" /\ hist.run.gen = "raise") =>
        /\ state.draft_response = FallbackDraft(state)
        /\ state.draft_response.signature = FridaySignature
        /\ state.error # "None"
        /\ pc \in {"escalate_to_human", "finalize", "send_email"}
              => state.error = "Response generation failed"
        /\ pc \in {"escalate_to_human", "finalize", "send_email", "END"}
        /\ pc # "END" => ENABLED (Escalate \/ Finalize \/ Send)
        /\ hist.run.n_finalize = 1
              => /\ state.final_response = FallbackDraft(state)
                 /\ hist.run.send = "ok"
                       => [kind |-> "reply", to |-> state.from_email,
                           body |-> FallbackDraft(state)] \in outbox
        /\ pc = "END" => hist.run.n_send = 1

C18_Witness ==
    /\ Running("END") /\ hist.run.gen = "raise"
    /\ hist.run.n_finalize = 1
    /\ state.sent
    /\ state.final_response = FallbackDraft(state)
    /\ state.error = "Response generation failed"

\* C19: when the similarity search fails, the retrieved context is empty,
\* the failure stops nothing and is recorded in no error, and the generation
\* step is invoked with the explicit no-context text as its context.
C19_SearchFailureIsSilent ==
    (dpc = "run" /\ hist.run.kb = "raise") =>
        /\ state.retrieved_context = <<>>
        /\ pc = "generate_response"
              => /\ state.error = ErrorFrom(hist.run.classify, "none", "none")
                 /\ ENABLED Generate
        /\ pc # "generate_response"
              => /\ hist.run.gen # "none"
                 /\ hist.run.prompt.context = [kind |-> "literal", text |-> NoContextText]
                 /\ state.error = ErrorFrom(hist.run.classify, hist.run.gen, hist.run.send)

C19_Witness ==
    /\ Running("END") /\ hist.run.kb = "raise"
    /\ hist.run.gen = "text"
    /\ hist.run.prompt.context.kind = "literal"
    /\ state.sent /\ state.error = "None"

\* C20 (as claimed): the holding reply of an escalated run promises 2 hours if
\* and only if the classification's urgency is critical, as the escalation
\* decision reads it, and 24 hours in every other escalated run.
C20_TwoHoursIffCritical ==
    Escalated =>
        /\ state.final_response.timeframe \in {"2 hours", "24 hours"}
        /\ state.final_response.timeframe = "2 hours"
              <=> Lower(TheVal(state.classification).urgency) = "critical"

\* C21: on the finalize branch (flag false) the final reply is the draft,
\* verbatim, and the approval outcome is approved; applied to a state whose
\* flag is true, finalize_response changes nothing.
C21_FinalizeCopiesDraft ==
    dpc = "run" =>
        /\ hist.run.n_finalize = 1
              => /\ ~state.human_review_required
                 /\ state.draft_response.kind = "draft"
                 /\ state.final_response = state.draft_response
                 /\ state.human_approved = "True"
        /\ state.human_review_required => finalize_response(state) = state

C21_Witness ==
    /\ Running("send_email") /\ hist.run.n_finalize = 1
    /\ state.final_response = GeneratedDraft(state)
    /\ state.human_approved = "True"

\* C22 (as claimed): in every reachable state of a run the human-approval
\* outcome is unset or approved, never declined.
C22_NeverDeclined ==
    state.human_approved \in {"None", "True"}

\* C27 (as claimed): every classification stored on a run has its urgency
\* among low, medium, high, critical and its complexity score between 0.0
\* and 1.0 inclusive, whatever the completion returned.
C27_ClassificationInRange ==
    (dpc = "run" /\ ~IsNone(state.classification)) =>
        /\ TheVal(state.classification).urgency \in {"low", "medium", "high", "critical"}
        /\ TheVal(state.classification).complexity_score \in 0..10

\* C30: every run terminates: whatever the completion, the search and the
\* mailbox do, the graph reaches END, where process_email returns the state.
C30_RunTerminates == <>(pc = "END")

C30_Witness ==
    /\ Running("END")
    /\ hist.run.classify = "raise" /\ hist.run.kb = "raise"
    /\ hist.run.gen = "raise" /\ hist.run.send = "raise"
    /\ state.error = "Error sending email"

\* C23 (as claimed): the durable record of an id is append-only: whatever
\* appends, flushes, loads and restarts happen, every entry once flushed is
\* still in the record, unmodified and at its position (deletion excluded).
C23_DurableAppendOnly ==
    [][\A c \in DOMAIN disk :
          c \in DOMAIN disk' => IsPrefix(disk[c], disk'[c])]_vars

\* Every metadata value of the conversation is a JSON value as Python reads
\* one back: null, string, list or dict, no tuple
JsonNative(conversation) ==
    \A i \in DOMAIN conversation :
        \A k \in DOMAIN conversation[i].metadata.items :
            conversation[i].metadata.items[k].py # "tuple"

\* The in-memory entries of c after flushing c and loading it
FlushedAndLoaded(c) ==
    load_conversation(conversations, save_conversation_json(disk, conversations, c), c)[c]

\* C24 (as claimed): for every id and every sequence of appended entries,
\* flushing the id and loading it yields the same entries, in order, with
\* identical role, content and metadata.
C24_RoundTrip ==
    \A c \in DOMAIN conversations : FlushedAndLoaded(c) = conversations[c]

\* C24 (amended): for every id and every sequence of appended entries whose
\* metadata holds JSON values only (no tuple), flushing the id and loading
\* it yields the same entries, in order, with identical role, content and
\* metadata.
C24_RoundTripOfJsonValues ==
    \A c \in DOMAIN conversations :
        JsonNative(conversations[c]) => FlushedAndLoaded(c) = conversations[c]

C24_Witness ==
    /\ "c1" \in DOMAIN conversations /\ "c1" \in DOMAIN disk
    /\ Len(conversations["c1"]) = MaxEntries
    /\ conversations["c1"][1].role = "user"
    /\ "topics" \in DOMAIN conversations["c1"][MaxEntries].metadata.items
    /\ disk["c1"] = json_dump(conversations["c1"])
    /\ json_load(disk["c1"]) = conversations["c1"]

\* The two entries the run of m appends
OwnEntries(m) ==
    << [role |-> "user", content |-> state[m].body],
       [role |-> "assistant", content |-> state[m].final_response] >>

\* C25: under every interleaving of the logging of runs with distinct ids,
\* the log of each id, in memory and on disk, holds exactly the entries its
\* own run has appended so far, in order, and in the end exactly its two.
C25_DistinctIdsDoNotInterfere ==
    \A m \in MsgIds :
        /\ pc[m] = "add_user" => m \notin DOMAIN conversations
        /\ pc[m] = "add_assistant" => conversations[m] = SubSeq(OwnEntries(m), 1, 1)
        /\ pc[m] \in {"save", "done"} => conversations[m] = OwnEntries(m)
        /\ pc[m] # "done" => m \notin DOMAIN disk
        /\ pc[m] = "done" => disk[m] = OwnEntries(m)

C25_Witness ==
    /\ \A m \in MsgIds : pc[m] = "done" /\ disk[m] = OwnEntries(m)
    /\ state[1].final_response.kind = "holding"
    /\ state[MaxMsgs].final_response.kind = "draft"

\* The inbound message lacks its sender, its subject or its body
Malformed(msg) == \E k \in RequiredFields : msg[k] = "absent"

\* C26 (as claimed): an inbound message missing its sender, subject or body
\* is turned away before a run starts, on every entry point: no node of the
\* pipeline executes for it and nothing is sent.
C26_MalformedRejected ==
    Malformed(Head(batch)) =>
        /\ dpc \in {"intake", "rejected"}
        /\ hist.run.trace = <<>>
        /\ outbox = {}

\* The display-name rule and the local-part rule of the extraction, on the
\* input of the state
DisplayNameRule ==
    LET name_part == Strip(Strip(Strip(SplitFirst(state.from_email, "<"), Whitespace),
                                 {"\""}), {"'"})
    IN  /\ Contains(state.from_email, "<") /\ Contains(state.from_email, ">")
        /\ Len(name_part) > 1 /\ ~isdigit(name_part)

LocalPartRule ==
    LET cleaned == Strip(Remove(Remove(state.from_email, "<"), ">"), Whitespace)
        words == title(ReplaceBySpace(SplitFirst(cleaned, "@"), {".", "_", "-"}))
    IN  /\ ~isdigit(words)
        /\ WordCount(words) \in 1..3
        /\ \A i \in DOMAIN words : words[i] \notin Digits

\* C28: the extraction returns a non-empty string for every address string,
\* empty, digit-only, bracket-only and malformed ones included, and returns
\* 'Valued Customer' when neither the display-name rule nor the local-part
\* rule applies.
C28_ExtractNameTotal ==
    (dpc = "names" /\ pc = "done") =>
        /\ ~IsNone(state.customer_name)
        /\ Len(TheVal(state.customer_name)) >= 1
        /\ (~DisplayNameRule /\ ~LocalPartRule)
              => TheVal(state.customer_name) = ValuedCustomer

C28_Witness ==
    /\ dpc = "names" /\ pc = "done"
    /\ state.from_email = << "<", ">" >>
    /\ state.customer_name = Some(ValuedCustomer)

\* The name the stated rule gives for an address written from a display
\* name and a local part: the display name when it is not numeric, else the
\* local part, separators replaced and title-cased, when that has 1 to 3
\* words and no digit, else the generic salutation
RuleName(display, local) ==
    LET shown == IF IsNone(display) THEN <<>> ELSE Strip(TheVal(display), {"\""})
        words == title(ReplaceBySpace(TheVal(local), {".", "_", "-"}))
    IN  IF shown # <<>> /\ ~isdigit(shown) THEN shown
        ELSE IF /\ WordCount(words) \in 1..3
                /\ \A i \in DOMAIN words : words[i] \notin Digits
        THEN words
        ELSE ValuedCustomer

\* C29 (as claimed): "Jane Doe <jane@x.com>" gives "Jane Doe", "j.doe@x.com"
\* gives "J Doe", "12345@x.com" gives "Valued Customer"; in general a
\* non-numeric display name wins, else the local part with '.', '_', '-'
\* replaced by spaces and title-cased is used if it has 1 to 3 words and no
\* digits, else the generic salutation.
C29_NameByRule ==
    (dpc = "names" /\ pc = "done" /\ ~IsNone(state.local)) =>
        TheVal(state.customer_name) = RuleName(state.display, state.local)

\* C31 (as claimed): whenever a Classification is stored on a run, its
\* requires-human-review flag and the run's escalation flag both equal the
\* escalation decision applied to the stored Classification's own field
\* values, defaults for missing fields included.
C31_FlagMatchesStoredFields ==
    (dpc = "run" /\ ~IsNone(state.classification)) =>
        LET stored == TheVal(state.classification)
            decision == check_human_review_required(stored, hil_enabled)
        IN  /\ stored.requires_human_review = decision
            /\ state.human_review_required = decision

\* C36: with human-in-the-loop disabled in the configuration the escalation
\* decision returns false for every classification, urgency critical and
\* complexity 1.0 included; no run takes the escalation path and no reviewer
\* notification is sent.
C36_DisabledNeverEscalates ==
    (dpc = "run" /\ ~hil_enabled) =>
        /\ ~state.human_review_required
        /\ ~IsNone(state.classification)
              => ~TheVal(state.classification).requires_human_review
        /\ pc # "escalate_to_human"
        /\ hist.run.n_escalate = 0
        /\ "escalate_to_human" \notin Range(hist.run.trace)
        /\ \A msg \in outbox : msg.kind # "notify"
        /\ \A m \in MsgIds : hist.notes[m] = 0

C36_Witness ==
    /\ Running("END") /\ ~hil_enabled
    /\ hist.run.classify = "json"
    /\ Get(hist.run.result, "urgency", "") = "critical"
    /\ Get(hist.run.result, "complexity_score", 0) = 10
    /\ Get(hist.run.result, "sensitive_topics", {}) = {"legal"}
    /\ hist.run.trace = << "classify", "retrieve_context", "generate_response",
                           "finalize", "send_email" >>
    /\ state.sent /\ state.final_response = GeneratedDraft(state)

\* C35 (as claimed): for every batch that completes, total = processed +
\* skipped_admin; every processed run increments exactly one of the counters
\* sent, requires_review and errors, so processed = sent + requires_review +
\* errors; and requires_review counts every run that took the escalation path.
C35_BatchCounters ==
    [][/\ (mode = "batch_process" /\ dpc = "loop" /\ dpc' = "idle")
            => /\ stats.total = stats.processed + stats.skipped_admin
               /\ stats.processed = stats.sent + stats.requires_review + stats.errors
       /\ (mode = "batch_process" /\ Running("END"))
            => /\ stats'.processed = stats.processed + 1
               /\ (stats'.sent - stats.sent) + (stats'.errors - stats.errors)
                     + (stats'.requires_review - stats.requires_review) = 1
               /\ hist.run.n_escalate = 1
                     => stats'.requires_review = stats.requires_review + 1]_vars

\* C34: every run returned by process_email ends with sent = true or with a
\* non-empty error field; no run finishes unsent without an error, so the
\* drivers' "processed but not sent" outcome is never reached.
C34_SentOrError ==
    Running("END") =>
        /\ state.sent \/ state.error # "None"
        /\ run_once_report(state) # "not sent (human declined)"
        /\ TalliedCounter(state) # "none"

C34_Witness ==
    /\ Running("END") /\ mode = "run_once"
    /\ hist.run.n_escalate = 1
    /\ hist.run.send = "raise"
    /\ ~state.sent
    /\ state.error = "Error sending email"
    /\ run_once_report(state) = "error"

\* C33 (as claimed): the reviewer notification, which says that a holding
\* response has been sent to the customer, is sent only in escalated runs
\* whose holding reply the mailbox accepted (runs that end with sent = true),
\* and at most once per inbound message.
C33_NotificationOnlyAfterHolding ==
    /\ Running("END") =>
          \A msg \in outbox :
              msg.kind = "notify" =>
                  /\ hist.run.n_escalate = 1
                  /\ state.sent
                  /\ ReplyMessage(state) \in outbox
    /\ \A m \in MsgIds : hist.notes[m] <= 1

\* C32 (as claimed): across any sequence of polls, polls after a failed
\* mark-as-read included, no inbound message is sent more than one
\* sender-facing reply.
C32_AtMostOneReply ==
    \A m \in MsgIds : hist.replies[m] <= 1

====
